---- MODULE Spec2Model ----
(***************************************************************************)
(* A model of generate.py, the static site generator: main() reads the two *)
(* directories of person files, enriches the records through two cached    *)
(* external sources, validates the declared project URLs, aggregates the   *)
(* posts and renders the site.  Every call main() makes is one action.     *)
(*                                                                         *)
(* Python strings that the code inspects (file names, identifiers, project *)
(* URLs, display names) are sequences of one-character strings, so that    *)
(* lower(), endswith(), slicing and the regular expressions are computed,  *)
(* not assumed.  An optional field of a JSON object is a sequence of       *)
(* length 0 (the key is absent) or 1 (the key is present).                 *)
(***************************************************************************)
EXTENDS Integers, Sequences, FiniteSets, TLC

VARIABLES
    pc,              \* the statement of main() that runs next, or how it ended
    mentorsDir,      \* listing of data_dir/mentors: files in os.listdir order
    participantsDir, \* listing of data_dir/participants
    remote,          \* what the two external sources answer during this run
    disk,            \* cache_dir: the cache files, absent until first saved
    calls,           \* external fetches the last step issued, per source and key
    mentors,         \* main()'s local list of mentor records
    participants,    \* main()'s local list of participant records
    heap,            \* the details dicts the posts refer to (mutable, may be shared)
    projects,        \* main()'s local list of project entries
    posts,           \* main()'s local list of aggregated posts
    site,            \* what this run has written under _site
    err,             \* the message of the exception or exit() that ended the run
    saved,           \* enrichment phases of this run that reached save_cache
    run              \* number of the current run of the program

vars == <<pc, mentorsDir, participantsDir, remote, disk, calls, mentors,
          participants, heap, projects, posts, site, err, saved, run>>

\* ------------------------------------------------------------ bounds
MaxFiles == 2     \* files in a directory
MaxProjects == 2  \* project URLs a record declares
MaxPosts == 2     \* posts a record declares
MaxRuns == 2      \* runs of the program over the same cache directory

\* ------------------------------------------------------------ optional values
Absent == <<>>
Some(x) == <<x>>
Has(o) == Len(o) = 1
Get(o) == o[1]

\* ------------------------------------------------------------ str methods
\* str.lower(), one character at a time, over the letters the inputs use
LowerChar(c) ==
    CASE c = "A" -> "a" [] c = "B" -> "b" [] c = "J" -> "j" [] c = "L" -> "l"
      [] c = "N" -> "n" [] c = "O" -> "o" [] c = "S" -> "s" [] c = "X" -> "x"
      [] OTHER -> c

Lower(s) == [i \in 1..Len(s) |-> LowerChar(s[i])]

\* str.endswith(suffix)
EndsWith(s, suffix) ==
    /\ Len(s) >= Len(suffix)
    /\ SubSeq(s, Len(s) - Len(suffix) + 1, Len(s)) = suffix

\* the slice s[:-5]
DropLast5(s) == SubSeq(s, 1, Len(s) - 5)

\* ord(c), for the comparison of display names
Ord(c) ==
    CASE c = "A" -> 65 [] c = "B" -> 66 [] c = "C" -> 67 [] c = "a" -> 97
      [] c = "b" -> 98 [] c = "l" -> 108 [] c = "o" -> 111 [] OTHER -> 63

\* s < t for Python strings: lexicographic by code point
RECURSIVE StrLess(_, _)
StrLess(s, t) ==
    IF t = <<>> THEN FALSE
    ELSE IF s = <<>> THEN TRUE
    ELSE IF Ord(Head(s)) # Ord(Head(t)) THEN Ord(Head(s)) < Ord(Head(t))
    ELSE StrLess(Tail(s), Tail(t))

Reverse(s) == [i \in 1..Len(s) |-> s[Len(s) + 1 - i]]

\* ------------------------------------------------------------ messages
\* An f-string: its literal text and the values interpolated into it, in order.
Msg(text, args) == [text |-> text, args |-> args]
NoMsg == Msg("", <<>>)

\* ------------------------------------------------------------ read_json_files
GitKeep == <<".", "g", "i", "t", "k", "e", "e", "p">>
DotJson == <<".", "j", "s", "o", "n">>

\* line 138, mutated: the file name need only start with the identifier
IdentifierMismatchPrefix(person, filename) ==
    \/ Len(Get(person.github)) > Len(DropLast5(filename))
    \/ Lower(Get(person.github)) #
          SubSeq(DropLast5(filename), 1, Len(Get(person.github)))

\* line 138: person['github'].lower() != filename[:-5]
IdentifierMismatch(person, filename) ==
    Lower(Get(person.github)) # DropLast5(filename)

\* One iteration of the loop over os.listdir(folder): the exception the file raises,
\* or none.  A file is [filename, person]: its name and the object json.load returns.
FileError(file) ==
    IF ~EndsWith(file.filename, DotJson)
    THEN Some(Msg("file does not end with .json", <<>>))
    ELSE IF file.filename # Lower(file.filename)
    THEN Some(Msg("filename {filename} should be all lower-case", <<file.filename>>))
    ELSE IF ~Has(file.person.github)
    THEN Some(Msg("github field is missing from {filename}", <<file.filename>>))
    ELSE IF IdentifierMismatch(file.person, file.filename)
    THEN Some(Msg("value of github fields '{person['github']}' is not the same as the filename '{filename}'",
                  <<Get(file.person.github), file.filename>>))
    ELSE Absent

\* read_json_files(folder), from file number i on, people being the records so far:
\* [raised, people, err].  An exception discards the list built so far.
RECURSIVE ReadFrom(_, _, _)
ReadFrom(folder, i, people) ==
    IF i > Len(folder) THEN [raised |-> FALSE, people |-> people, err |-> NoMsg]
    ELSE IF folder[i].filename = GitKeep THEN ReadFrom(folder, i + 1, people)
    ELSE IF Has(FileError(folder[i]))
    THEN [raised |-> TRUE, people |-> <<>>, err |-> Get(FileError(folder[i]))]
    ELSE ReadFrom(folder, i + 1, Append(people, folder[i].person))

read_json_files(folder) == ReadFrom(folder, 1, <<>>)

\* ------------------------------------------------------------ the cache files
\* load_cache(name): the mapping in the file, empty when the file does not exist.
\* The values are JSON values the external source returned, so json.dump followed
\* by json.load gives them back as they were.
load_cache(name) == IF Has(disk[name]) THEN Get(disk[name]) ELSE <<>>

\* save_cache(name, cache): the file is overwritten with the whole mapping
save_cache(name, cache) == [disk EXCEPT ![name] = Some(cache)]

\* one more external fetch for key k
Counted(c, k) == [x \in DOMAIN c |-> IF x = k THEN c[x] + 1 ELSE c[x]]

\* ------------------------------------------------------------ update_devto_posts
\* What forem.fetch can give: nothing (a falsy value), or an article, with or without
\* a publish timestamp of its own.
Falsy == [truthy |-> FALSE, published_at |-> Absent]
Article(t) == [truthy |-> TRUE, published_at |-> Some(t)]
ArticleNoTime == [truthy |-> TRUE, published_at |-> Absent]

Unset == [kind |-> "unset", ref |-> <<>>]

\* lines 58-59, mutated: the fetch is issued whether or not the URL is cached
DevtoFetchAlways(st, url) ==
    IF st.raised THEN st
    ELSE IF remote.forem[url].raise
    THEN [st EXCEPT !.raised = TRUE, !.calls = Counted(@, url)]
    ELSE [st EXCEPT !.calls = Counted(@, url),
                    !.cache = (url :> remote.forem[url].value) @@ st.cache]

\* lines 57-60 for one page: st is [raised, cache, calls]; an exception of forem.fetch
\* propagates out of update_devto_posts
DevtoFetch(st, url) ==
    IF st.raised \/ url \in DOMAIN st.cache THEN st
    ELSE IF remote.forem[url].raise
    THEN [st EXCEPT !.raised = TRUE, !.calls = Counted(@, url)]
    ELSE [st EXCEPT !.calls = Counted(@, url),
                    !.cache = st.cache @@ (url :> remote.forem[url].value)]

RECURSIVE DevtoPages(_, _, _)
DevtoPages(st, pages, j) ==
    IF j > Len(pages) THEN st
    ELSE DevtoPages(DevtoFetch(st, pages[j].url), pages, j + 1)

\* lines 53-61: the loop over people, from person number i on
RECURSIVE DevtoPeople(_, _, _)
DevtoPeople(st, people, i) ==
    IF i > Len(people) THEN st
    ELSE IF ~Has(people[i].posts) THEN DevtoPeople(st, people, i + 1)
    ELSE DevtoPeople(DevtoPages(st, Get(people[i].posts), 1), people, i + 1)

\* line 61: page['details'] = cache[url].  The value is the object held by the
\* cache dict of this call, so two pages with one URL get the same object; role names
\* the call (the list it was given).
DetailsOf(cache, role, url) ==
    IF cache[url].truthy THEN [kind |-> "obj", ref |-> <<role, url>>]
    ELSE [kind |-> "falsy", ref |-> <<>>]

WithDetails(people, cache, role) ==
    [i \in 1..Len(people) |->
        IF ~Has(people[i].posts) THEN people[i]
        ELSE [people[i] EXCEPT !.posts = Some(
                [j \in 1..Len(Get(people[i].posts)) |->
                    [Get(people[i].posts)[j] EXCEPT
                        !.details = DetailsOf(cache, role, Get(people[i].posts)[j].url)]])]]

PostUrlsOf(people) ==
    UNION {{Get(people[i].posts)[j].url : j \in 1..Len(Get(people[i].posts))} :
           i \in {k \in 1..Len(people) : Has(people[k].posts)}}

\* the dicts of the cache that the pages of this call now refer to
DetailObjects(people, cache, role) ==
    [r \in {<<role, u>> : u \in {v \in PostUrlsOf(people) : cache[v].truthy}} |->
        [published_at |-> cache[r[2]].published_at, author |-> Absent]]

\* update_devto_posts(people): [raised, cache, calls] after the loop
update_devto_posts(people) ==
    DevtoPeople([raised |-> FALSE, cache |-> load_cache("forem"),
                 calls |-> [u \in DOMAIN remote.forem |-> 0]], people, 1)

\* ------------------------------------------------------------ update_github_data
\* lines 108-110, mutated: an empty answer is stored and attached like any other
GithubPersonStoreMiss(st, i) ==
    LET id == Get(st.people[i].github)
        c == IF id \in DOMAIN st.cache THEN st.cache
             ELSE st.cache @@ (id :> remote.github[id])
    IN IF st.raised THEN st
       ELSE IF id \notin DOMAIN st.cache /\ remote.github[id] = "raise"
       THEN [st EXCEPT !.raised = TRUE, !.calls = Counted(@, id)]
       ELSE [st EXCEPT !.cache = c,
                       !.calls = IF id \in DOMAIN st.cache THEN @ ELSE Counted(@, id),
                       !.people[i].gh = Some(c[id])]

\* lines 105-112 for person number i: st is [raised, cache, calls, people].
\* github.get_user_info answers "raise" (an exception), "notfound" (a falsy value)
\* or a profile.
GithubPerson(st, i) ==
    LET id == Get(st.people[i].github)
    IN IF st.raised THEN st
       ELSE IF id \in DOMAIN st.cache
       THEN [st EXCEPT !.people[i].gh = Some(st.cache[id])]
       ELSE IF remote.github[id] = "raise"
       THEN [st EXCEPT !.raised = TRUE, !.calls = Counted(@, id)]
       ELSE IF remote.github[id] = "notfound"
       THEN [st EXCEPT !.calls = Counted(@, id)]
       ELSE [st EXCEPT !.calls = Counted(@, id),
                       !.cache = st.cache @@ (id :> remote.github[id]),
                       !.people[i].gh = Some(remote.github[id])]

RECURSIVE GithubPeople(_, _)
GithubPeople(st, i) ==
    IF i > Len(st.people) THEN st ELSE GithubPeople(GithubPerson(st, i), i + 1)

\* update_github_data(people): [raised, cache, calls, people] after the loop
update_github_data(people) ==
    GithubPeople([raised |-> FALSE, cache |-> load_cache("github_people"),
                  calls |-> [id \in DOMAIN remote.github |-> 0], people |-> people], 1)

\* ------------------------------------------------------------ check_project
\* A pattern is the text of the regular expression between ^ and the first group,
\* one character per element; "." is the metacharacter, which matches any character
\* but a line break.
Https == <<"h", "t", "t", "p", "s", ":", "/", "/">>
GithubPattern ==
    Https \o <<"g", "i", "t", "h", "u", "b", ".", "c", "o", "m", "/">>
HeptapodPattern ==
    Https \o <<"f", "o", "s", "s", ".", "h", "e", "p", "t", "a", "p", "o", "d", ".",
               "n", "e", "t", "/">>

MatchAtom(p, c) == IF p = "." THEN c # "\n" ELSE p = c

MatchPrefix(pattern, url) ==
    /\ Len(url) >= Len(pattern)
    /\ \A i \in 1..Len(pattern) : MatchAtom(pattern[i], url[i])

AfterPrefix(pattern, url) == SubSeq(url, Len(pattern) + 1, Len(url))

\* [^/]+ up to the end: one or more characters, none of them a slash
IsSegment(s) == Len(s) >= 1 /\ \A i \in 1..Len(s) : s[i] # "/"

\* re.search('^<pattern>([^/]+)/([^/]+)$', url): the two groups, or no match.
\* [^/] takes a line break too, so $ is reached only at the end of the string.
SearchOwnerRepo(pattern, url) ==
    LET rest == AfterPrefix(pattern, url)
        cut == {k \in 1..Len(rest) : /\ rest[k] = "/"
                                      /\ IsSegment(SubSeq(rest, 1, k - 1))
                                      /\ IsSegment(SubSeq(rest, k + 1, Len(rest)))}
    IN IF MatchPrefix(pattern, url) /\ cut # {}
       THEN LET k == CHOOSE c \in cut : TRUE
            IN Some(<<SubSeq(rest, 1, k - 1), SubSeq(rest, k + 1, Len(rest))>>)
       ELSE Absent

\* re.search('^<pattern>([^/]+)$', url): the group, or no match
SearchOwner(pattern, url) ==
    IF MatchPrefix(pattern, url) /\ IsSegment(AfterPrefix(pattern, url))
    THEN Some(<<AfterPrefix(pattern, url)>>)
    ELSE Absent

Classified(type, name) == [url_type |-> Some(type), name |-> Some(name)]

\* lines 87-89, mutated: the repository is named after group 1, its owner
check_projectOwnerName(url) ==
    IF Has(SearchOwnerRepo(GithubPattern, url))
    THEN Classified("github_repo", Get(SearchOwnerRepo(GithubPattern, url))[1])
    ELSE IF Has(SearchOwnerRepo(HeptapodPattern, url))
    THEN Classified("heptapod_repo", Get(SearchOwnerRepo(HeptapodPattern, url))[2])
    ELSE IF Has(SearchOwner(GithubPattern, url))
    THEN Classified("github_organization", Get(SearchOwner(GithubPattern, url))[1])
    ELSE [url_type |-> Absent, name |-> Absent]

\* check_project(url): (url_type, name), or (None, None)
check_project(url) ==
    IF Has(SearchOwnerRepo(GithubPattern, url))
    THEN Classified("github_repo", Get(SearchOwnerRepo(GithubPattern, url))[2])
    ELSE IF Has(SearchOwnerRepo(HeptapodPattern, url))
    THEN Classified("heptapod_repo", Get(SearchOwnerRepo(HeptapodPattern, url))[2])
    ELSE IF Has(SearchOwner(GithubPattern, url))
    THEN Classified("github_organization", Get(SearchOwner(GithubPattern, url))[1])
    ELSE [url_type |-> Absent, name |-> Absent]

\* ------------------------------------------------------------ check_projects
\* lines 72-81 for one person, from URL number j on: st is
\* [exited, err, people, all_projects], entries the person's list so far
RECURSIVE CheckUrls(_, _, _, _)
CheckUrls(st, i, j, entries) ==
    LET person == st.people[i]
        urls == Get(person.projects)
    IN IF j > Len(urls)
       THEN [st EXCEPT !.people[i].projects = Some(entries),
                       !.all_projects = @ \o entries]
       ELSE IF ~Has(check_project(urls[j]).url_type)
       THEN [st EXCEPT !.exited = TRUE,
                       !.err = Msg("Invalid project '{url}' by {person['name']} github='{person['github']}'",
                                   <<urls[j], person.name, Get(person.github)>>)]
       ELSE CheckUrls(st, i, j + 1,
                      Append(entries, [url |-> urls[j],
                                       name |-> Get(check_project(urls[j]).name)]))

RECURSIVE CheckPeople(_, _)
CheckPeople(st, i) ==
    IF st.exited \/ i > Len(st.people) THEN st
    ELSE IF ~Has(st.people[i].projects) THEN CheckPeople(st, i + 1)
    ELSE CheckPeople(CheckUrls(st, i, 1, <<>>), i + 1)

\* check_projects(people): [exited, err, people, all_projects]
check_projects(people) ==
    CheckPeople([exited |-> FALSE, err |-> NoMsg, people |-> people,
                 all_projects |-> <<>>], 1)

\* ------------------------------------------------------------ list.sort
\* list.sort(key=...) is stable: an item is placed after the items whose key is not
\* greater.  Items are [key, item] pairs, the keys already computed.
RECURSIVE InsertAsc(_, _)
InsertAsc(s, x) ==
    IF s = <<>> THEN <<x>>
    ELSE IF x.key < Head(s).key THEN <<x>> \o s
    ELSE <<Head(s)>> \o InsertAsc(Tail(s), x)

RECURSIVE SortAsc(_)
SortAsc(s) ==
    IF s = <<>> THEN <<>>
    ELSE InsertAsc(SortAsc(SubSeq(s, 1, Len(s) - 1)), s[Len(s)])

\* line 168, mutated: reverse=True is left out
SortAscending(s) == SortAsc(s)

\* line 168, mutated: the sorted list is reversed, and the ties with it
SortThenReverse(s) == Reverse(SortAsc(s))

\* list.sort(key=..., reverse=True): the list is reversed, sorted and reversed
\* again, which keeps items of equal key in their original order
SortReverse(s) == Reverse(SortAsc(Reverse(s)))

\* the same insertion for keys that are strings (line 189)
RECURSIVE InsertByName(_, _)
InsertByName(s, x) ==
    IF s = <<>> THEN <<x>>
    ELSE IF StrLess(x.name, Head(s).name) THEN <<x>> \o s
    ELSE <<Head(s)>> \o InsertByName(Tail(s), x)

RECURSIVE SortByName(_)
SortByName(s) ==
    IF s = <<>> THEN <<>>
    ELSE InsertByName(SortByName(SubSeq(s, 1, Len(s) - 1)), s[Len(s)])

\* ------------------------------------------------------------ collect_posts
\* A record is referred to by the list it is in and its identifier.
PersonRef(role, person) == <<role, Get(person.github)>>

\* An item of the posts list: a reference to a details dict, or a fallback dict of
\* its own.  src records where the item came from (the owning record and the number
\* of the post in the traversal); the program keeps no such field.
DetailsItem(ref, src) ==
    [kind |-> "details", ref |-> ref, fallback |-> Absent, src |-> src]
FallbackItem(post, owner, src) ==
    [kind |-> "fallback", ref |-> <<>>,
     fallback |-> Some([url |-> post.url, title |-> post.title, description |-> "",
                        author |-> owner, published_at |-> post.published_at]),
     src |-> src]

\* lines 157-167 for one post: st is [heap, posts]
CollectPost(st, post, owner) ==
    LET src == [owner |-> owner, n |-> Len(st.posts) + 1]
    IN IF post.details.kind = "obj"
       THEN [heap |-> [st.heap EXCEPT ![post.details.ref].author = Some(owner)],
             posts |-> Append(st.posts, DetailsItem(post.details.ref, src))]
       ELSE [st EXCEPT !.posts = Append(@, FallbackItem(post, owner, src))]

RECURSIVE CollectPages(_, _, _, _)
CollectPages(st, pages, owner, j) ==
    IF j > Len(pages) THEN st
    ELSE CollectPages(CollectPost(st, pages[j], owner), pages, owner, j + 1)

\* lines 154-167: people is mentors + participants, roles[i] the list person i is in
RECURSIVE CollectPeople(_, _, _, _)
CollectPeople(st, people, roles, i) ==
    IF i > Len(people) THEN st
    ELSE IF ~Has(people[i].posts) THEN CollectPeople(st, people, roles, i + 1)
    ELSE CollectPeople(CollectPages(st, Get(people[i].posts),
                                    PersonRef(roles[i], people[i]), 1),
                       people, roles, i + 1)

\* post['published_at'] of an item, as the sort key reads it
PublishedAt(h, item) ==
    IF item.kind = "details" THEN h[item.ref].published_at
    ELSE Some(Get(item.fallback).published_at)

\* post['author'] of an item
AuthorOf(h, item) ==
    IF item.kind = "details" THEN h[item.ref].author
    ELSE Some(Get(item.fallback).author)

\* collect_posts(people): [raised, heap, posts].  The key function raises KeyError
\* on a details dict without 'published_at'.
collect_posts(people, roles) ==
    LET st == CollectPeople([heap |-> heap, posts |-> <<>>], people, roles, 1)
        keyed == [i \in 1..Len(st.posts) |->
                    [key |-> PublishedAt(st.heap, st.posts[i]), item |-> st.posts[i]]]
    IN IF \E i \in 1..Len(keyed) : ~Has(keyed[i].key)
       THEN [raised |-> TRUE, heap |-> st.heap, posts |-> <<>>]
       ELSE LET sorted == SortReverse([i \in 1..Len(keyed) |->
                                         [key |-> Get(keyed[i].key), item |-> keyed[i].item]])
            IN [raised |-> FALSE, heap |-> st.heap,
                posts |-> [i \in 1..Len(sorted) |-> sorted[i].item]]

\* ------------------------------------------------------------ main
Roles == [i \in 1..(Len(mentors) + Len(participants)) |->
            IF i <= Len(mentors) THEN "mentors" ELSE "participants"]

NoCalls == [forem |-> [u \in DOMAIN remote.forem |-> 0],
            github_people |-> [id \in DOMAIN remote.github |-> 0]]

NoSite == [dir |-> FALSE, pages |-> {}, people |-> {}]

Ended == pc \in {"done", "raised", "exited"}

\* line 174: mentors = read_json_files(data_dir.joinpath('mentors'))
ReadMentors ==
    /\ pc = "read_mentors"
    /\ LET r == read_json_files(mentorsDir)
       IN /\ pc' = IF r.raised THEN "raised" ELSE "read_participants"
          /\ mentors' = r.people
          /\ err' = r.err
    /\ calls' = NoCalls
    /\ UNCHANGED <<mentorsDir, participantsDir, remote, disk, participants, heap,
                   projects, posts, site, saved, run>>

\* lines 175-177: participants = read_json_files(...); cache_dir.mkdir(exist_ok=True)
ReadParticipants ==
    /\ pc = "read_participants"
    /\ LET r == read_json_files(participantsDir)
       IN /\ pc' = IF r.raised THEN "raised" ELSE "devto_mentors"
          /\ participants' = r.people
          /\ err' = r.err
    /\ calls' = NoCalls
    /\ UNCHANGED <<mentorsDir, participantsDir, remote, disk, mentors, heap,
                   projects, posts, site, saved, run>>

\* What a call of update_devto_posts leaves behind, but for the list it was given
DevtoEffects(st, people, role, next) ==
    /\ pc' = IF st.raised THEN "raised" ELSE next
    /\ err' = IF st.raised THEN Msg("forem.fetch raised", <<>>) ELSE err
    /\ disk' = IF st.raised THEN disk ELSE save_cache("forem", st.cache)
    /\ heap' = IF st.raised THEN heap ELSE DetailObjects(people, st.cache, role) @@ heap
    /\ calls' = [NoCalls EXCEPT !.forem = st.calls]
    /\ saved' = IF st.raised THEN saved ELSE saved \cup {pc}

\* line 179: update_devto_posts(mentors)
UpdateDevtoMentors ==
    /\ pc = "devto_mentors"
    /\ LET st == update_devto_posts(mentors)
       IN /\ DevtoEffects(st, mentors, "mentors", "devto_participants")
          /\ mentors' = IF st.raised THEN mentors
                        ELSE WithDetails(mentors, st.cache, "mentors")
    /\ UNCHANGED <<mentorsDir, participantsDir, remote, participants, projects,
                   posts, site, run>>

\* line 180: update_devto_posts(participants)
UpdateDevtoParticipants ==
    /\ pc = "devto_participants"
    /\ LET st == update_devto_posts(participants)
       IN /\ DevtoEffects(st, participants, "participants", "github_mentors")
          /\ participants' = IF st.raised THEN participants
                             ELSE WithDetails(participants, st.cache, "participants")
    /\ UNCHANGED <<mentorsDir, participantsDir, remote, mentors, projects,
                   posts, site, run>>

GithubEffects(st, next) ==
    /\ pc' = IF st.raised THEN "raised" ELSE next
    /\ err' = IF st.raised THEN Msg("github.get_user_info raised", <<>>) ELSE err
    /\ disk' = IF st.raised THEN disk ELSE save_cache("github_people", st.cache)
    /\ calls' = [NoCalls EXCEPT !.github_people = st.calls]
    /\ saved' = IF st.raised THEN saved ELSE saved \cup {pc}

\* line 181: update_github_data(mentors)
UpdateGithubMentors ==
    /\ pc = "github_mentors"
    /\ LET st == update_github_data(mentors)
       IN /\ GithubEffects(st, "github_participants")
          /\ mentors' = IF st.raised THEN mentors ELSE st.people
    /\ UNCHANGED <<mentorsDir, participantsDir, remote, participants, heap,
                   projects, posts, site, run>>

\* line 182: update_github_data(participants)
UpdateGithubParticipants ==
    /\ pc = "github_participants"
    /\ LET st == update_github_data(participants)
       IN /\ GithubEffects(st, "check_mentors")
          /\ participants' = IF st.raised THEN participants ELSE st.people
    /\ UNCHANGED <<mentorsDir, participantsDir, remote, mentors, heap,
                   projects, posts, site, run>>

\* line 184: projects = check_projects(mentors)
CheckProjectsMentors ==
    /\ pc = "check_mentors"
    /\ LET st == check_projects(mentors)
       IN /\ pc' = IF st.exited THEN "exited" ELSE "check_participants"
          /\ err' = st.err
          /\ mentors' = st.people
          /\ projects' = IF st.exited THEN projects ELSE st.all_projects
    /\ calls' = NoCalls
    /\ UNCHANGED <<mentorsDir, participantsDir, remote, disk, participants, heap,
                   posts, site, saved, run>>

\* line 185: projects.extend(check_projects(participants))
CheckProjectsParticipants ==
    /\ pc = "check_participants"
    /\ LET st == check_projects(participants)
       IN /\ pc' = IF st.exited THEN "exited" ELSE "collect_posts"
          /\ err' = st.err
          /\ participants' = st.people
          /\ projects' = IF st.exited THEN projects ELSE projects \o st.all_projects
    /\ calls' = NoCalls
    /\ UNCHANGED <<mentorsDir, participantsDir, remote, disk, mentors, heap,
                   posts, site, saved, run>>

\* line 187: posts = collect_posts(mentors + participants)
CollectPosts ==
    /\ pc = "collect_posts"
    /\ LET r == collect_posts(mentors \o participants, Roles)
       IN /\ pc' = IF r.raised THEN "raised" ELSE "sort_participants"
          /\ err' = IF r.raised THEN Msg("KeyError: 'published_at'", <<>>) ELSE err
          /\ heap' = r.heap
          /\ posts' = r.posts
    /\ calls' = NoCalls
    /\ UNCHANGED <<mentorsDir, participantsDir, remote, disk, mentors, participants,
                   projects, site, saved, run>>

\* line 189: participants.sort(key=lambda person: person['name'])
SortParticipants ==
    /\ pc = "sort_participants"
    /\ participants' = SortByName(participants)
    /\ pc' = "generate_html"
    /\ calls' = NoCalls
    /\ UNCHANGED <<mentorsDir, participantsDir, remote, disk, mentors, heap,
                   projects, posts, site, err, saved, run>>

\* line 191: generate_html(mentors, participants, posts, projects) makes _site and
\* writes a page per person and the four pages of the site
GenerateHtml ==
    /\ pc = "generate_html"
    /\ site' = [dir |-> TRUE,
                pages |-> {"index.html", "articles.html", "projects.html", "about.html"},
                people |-> {Lower(Get((mentors \o participants)[i].github)) :
                                i \in 1..(Len(mentors) + Len(participants))}]
    /\ pc' = "done"
    /\ calls' = NoCalls
    /\ UNCHANGED <<mentorsDir, participantsDir, remote, disk, mentors, participants,
                   heap, projects, posts, err, saved, run>>

\* The process starts with nothing but what is on disk.
Fresh ==
    /\ pc = "read_mentors"
    /\ mentors = <<>>
    /\ participants = <<>>
    /\ heap = <<>>
    /\ projects = <<>>
    /\ posts = <<>>
    /\ site = NoSite
    /\ err = NoMsg
    /\ saved = {}
    /\ calls = NoCalls

Pipeline ==
    \/ ReadMentors
    \/ ReadParticipants
    \/ UpdateDevtoMentors
    \/ UpdateDevtoParticipants
    \/ UpdateGithubMentors
    \/ UpdateGithubParticipants
    \/ CheckProjectsMentors
    \/ CheckProjectsParticipants
    \/ CollectPosts
    \/ SortParticipants
    \/ GenerateHtml

\* ------------------------------------------------------------ inputs
\* The sequences over S of length at most n
SeqsUpTo(S, n) == UNION {[1..k -> S] : k \in 0..n}

\* Directory listings of n files out of a set, no two with the same name
RECURSIVE ListingsOf(_, _)
ListingsOf(files, n) ==
    IF n = 0 THEN {<<>>}
    ELSE UNION {{Append(d, f) :
                    f \in {g \in files : \A i \in 1..Len(d) : d[i].filename # g.filename}} :
                d \in ListingsOf(files, n - 1)}

\* Directory listings: at most MaxFiles files
Listings(files) == UNION {ListingsOf(files, n) : n \in 0..MaxFiles}

al == <<"a", "l">>
bo == <<"b", "o">>
NameAl == <<"A", "l">>
NameBo == <<"B", "o">>
NameCy == <<"C", "o">>

Person(github, name, postlist, urls) ==
    [github |-> github, name |-> name, posts |-> postlist, projects |-> urls,
     gh |-> Absent]
Post(url, t) == [url |-> url, title |-> "title", published_at |-> t, details |-> Unset]
File(stem, ext, person) == [filename |-> stem \o ext, person |-> person]

PostUrls == {"u1", "u2"}
Ids == {al, bo, <<"A", "l">>, <<"a">>}

\* project URLs
UrlRepo == Https \o <<"g", "i", "t", "h", "u", "b", ".", "c", "o", "m", "/", "a", "/", "b">>
UrlOrg == Https \o <<"g", "i", "t", "h", "u", "b", ".", "c", "o", "m", "/", "a">>
UrlHeptapod ==
    Https \o <<"f", "o", "s", "s", ".", "h", "e", "p", "t", "a", "p", "o", "d", ".",
               "n", "e", "t", "/", "a", "/", "b">>
UrlDeep ==
    Https \o <<"g", "i", "t", "h", "u", "b", ".", "c", "o", "m", "/", "a", "/", "b", "/", "c">>
UrlOther == Https \o <<"e", "x", ".", "c", "o", "m", "/", "a">>
UrlOtherHost == Https \o <<"g", "i", "t", "h", "u", "b", "x", "c", "o", "m", "/", "a", "/", "b">>

Answer(value) == [raise |-> FALSE, value |-> value]
Raises == [raise |-> TRUE, value |-> Falsy]

\* the external sources of a run in which every lookup succeeds
QuietRemote ==
    [forem |-> [u \in PostUrls |-> Answer(Article(1))],
     github |-> [id \in Ids |-> "g1"]]

InitWith(mdirs, pdirs, remotes) ==
    /\ mentorsDir \in mdirs
    /\ participantsDir \in pdirs
    /\ remote \in remotes
    /\ disk = [forem |-> Absent, github_people |-> Absent]
    /\ run = 1
    /\ Fresh

\* --- the loader's inputs: file names and identifiers of every kind
LoaderFiles ==
    {File(stem, ext, Person(github, NameAl, Absent, Absent)) :
        stem \in {al, bo, <<"A", "l">>},
        ext \in {DotJson, <<".", "t", "x", "t">>},
        github \in {Absent} \cup {Some(id) : id \in Ids}}
    \cup {[filename |-> GitKeep, person |-> Person(Absent, NameAl, Absent, Absent)]}

InitLoader ==
    InitWith(Listings(LoaderFiles),
             {<<>>,
              <<File(bo, DotJson, Person(Some(bo), NameBo, Absent, Absent))>>,
              <<File(bo, DotJson, Person(Some(al), NameBo, Absent, Absent))>>},
             {QuietRemote})

\* --- the validator's inputs: project lists over URLs of every shape
ProjectUrls == {UrlRepo, UrlOrg, UrlHeptapod, UrlDeep, UrlOther, UrlOtherHost}

ProjectLists(n) == {Absent} \cup {Some(l) : l \in SeqsUpTo(ProjectUrls, n)}

ProjectFiles ==
    {File(al, DotJson, Person(Some(al), NameAl, Absent, l)) : l \in ProjectLists(MaxProjects)}
    \cup {File(bo, DotJson, Person(Some(bo), NameBo, Absent, l)) : l \in ProjectLists(1)}

InitProjects ==
    InitWith(Listings(ProjectFiles),
             {<<>>,
              <<File(al, DotJson, Person(Some(al), NameCy, Absent, Some(<<UrlOrg>>)))>>,
              <<File(al, DotJson, Person(Some(al), NameCy, Absent, Some(<<UrlOther>>)))>>},
             {QuietRemote})

\* --- the aggregator's inputs: post lists with shared URLs and equal timestamps
PostChoices == {Post("u1", 1), Post("u1", 2), Post("u2", 2)}

PostLists(n) == {Absent} \cup {Some(l) : l \in SeqsUpTo(PostChoices, n)}

PostFiles ==
    {File(al, DotJson, Person(Some(al), NameAl, l, Absent)) : l \in PostLists(MaxPosts)}
    \cup {File(bo, DotJson, Person(Some(bo), NameBo, l, Absent)) : l \in PostLists(1)}

PostRemotes ==
    {[QuietRemote EXCEPT !.forem = [u \in PostUrls |-> IF u = "u1" THEN a1 ELSE a2]] :
        a1 \in {Answer(Falsy), Answer(Article(1)), Answer(Article(2))},
        a2 \in {Answer(Falsy), Answer(Article(2)), Answer(ArticleNoTime)}}

InitPosts ==
    InitWith(Listings(PostFiles),
             {<<>>,
              <<File(al, DotJson, Person(Some(al), NameCy, Some(<<Post("u1", 1)>>), Absent))>>,
              <<File(bo, DotJson, Person(Some(bo), NameBo, Some(<<Post("u2", 2)>>), Absent)),
                File(al, DotJson, Person(Some(al), NameAl, Absent, Absent))>>},
             PostRemotes)

\* --- whole runs: a few directories and a few states of the external sources
FileAl == File(al, DotJson, Person(Some(al), NameAl, Some(<<Post("u1", 2)>>), Some(<<UrlRepo>>)))
FileBo == File(bo, DotJson, Person(Some(bo), NameBo, Some(<<Post("u1", 2), Post("u2", 1)>>), Absent))
FileBoOther == File(bo, DotJson, Person(Some(bo), NameBo, Absent, Some(<<UrlOrg, UrlOther>>)))
FileBoOtherHost == File(bo, DotJson, Person(Some(bo), NameBo, Absent, Some(<<UrlOtherHost>>)))
FileTxt == File(al, <<".", "t", "x", "t">>, Person(Some(al), NameAl, Absent, Absent))

RunDirs ==
    {<<>>, <<FileAl>>, <<FileAl, FileBo>>, <<FileBoOther>>, <<FileBoOtherHost>>,
     <<FileTxt>>}

RunRemotes ==
    {[forem |-> [u \in PostUrls |-> IF u = "u1" THEN f[1] ELSE f[2]],
      github |-> [id \in Ids |-> IF id = al THEN g[1] ELSE g[2]]] :
        f \in {<<Answer(Article(1)), Answer(Article(2))>>,
               <<Answer(Article(2)), Answer(Falsy)>>,
               <<Answer(Falsy), Raises>>},
        g \in {<<"g1", "notfound">>, <<"g2", "g1">>, <<"notfound", "g2">>,
               <<"notfound", "raise">>}}

Init == InitWith(RunDirs, RunDirs, RunRemotes)

\* The program is run again, later: the directories and the external sources may
\* have changed, the cache files are as the last run left them.
NewRun ==
    /\ Ended
    /\ run < MaxRuns
    /\ run' = run + 1
    /\ mentorsDir' \in RunDirs
    /\ participantsDir' \in RunDirs
    /\ remote' \in RunRemotes
    /\ disk' = disk
    /\ pc' = "read_mentors"
    /\ mentors' = <<>>
    /\ participants' = <<>>
    /\ heap' = <<>>
    /\ projects' = <<>>
    /\ posts' = <<>>
    /\ site' = NoSite
    /\ err' = NoMsg
    /\ saved' = {}
    /\ calls' = NoCalls

Next == Pipeline \/ NewRun

Spec == Init /\ [][Next]_vars
SpecLoader == InitLoader /\ [][Pipeline]_vars
SpecProjects == InitProjects /\ [][Pipeline]_vars
SpecPosts == InitPosts /\ [][Pipeline]_vars

\* ============================================================ properties
\* ------------------------------------------------------------ vocabulary
\* The records a directory declares: its files but the placeholder, in listing order
Declared(dir) ==
    LET files == SelectSeq(dir, LAMBDA f : f.filename # GitKeep)
    IN [i \in 1..Len(files) |-> files[i].person]

NamedFiles(dir) == SelectSeq(dir, LAMBDA f : f.filename # GitKeep)

\* The file name without its .json extension
Stem(filename) == SubSeq(filename, 1, Len(filename) - Len(DotJson))

\* A file that breaks a rule of the loader
BadFile(f) ==
    /\ f.filename # GitKeep
    /\ \/ ~EndsWith(f.filename, DotJson)
       \/ \E i \in 1..Len(f.filename) : f.filename[i] \in {"A", "B", "J", "L", "N", "O", "S", "X"}
       \/ ~Has(f.person.github)
       \/ Lower(Get(f.person.github)) # Stem(f.filename)

HasBadFile(dir) == \E i \in 1..Len(dir) : BadFile(dir[i])

FirstBadFile(dir) ==
    dir[CHOOSE i \in 1..Len(dir) : BadFile(dir[i]) /\ \A j \in 1..(i - 1) : ~BadFile(dir[j])]

\* The message names a value: the value is interpolated into it
Mentions(msg, value) == \E i \in 1..Len(msg.args) : msg.args[i] = value

\* ------------------------------------------------------------ C7
\* The records are those of the directory's files, each identifier matching its file
LoadedIdentifiersMatch(people, dir) ==
    /\ Len(people) = Len(NamedFiles(dir))
    /\ \A i \in 1..Len(people) :
          /\ Has(people[i].github)
          /\ people[i].github = NamedFiles(dir)[i].person.github
          /\ Lower(Get(people[i].github)) = Stem(NamedFiles(dir)[i].filename)

\* C7: read_json_files either fails, returning no records, or returns one record per
\* file "<id>.json" with the identifier present and identifier.lower() = id; it fails
\* whenever a file other than the placeholder has no .json extension, a name with an
\* upper-case letter, no identifier, or an identifier that differs from the stem
\* other than by case.
C7_LoaderChecksIdentifiers ==
    /\ pc # "read_mentors" =>
          IF HasBadFile(mentorsDir)
          THEN pc = "raised" /\ mentors = <<>> /\ participants = <<>>
          ELSE LoadedIdentifiersMatch(mentors, mentorsDir)
    /\ (pc \notin {"read_mentors", "read_participants"} /\ ~HasBadFile(mentorsDir)) =>
          IF HasBadFile(participantsDir)
          THEN pc = "raised" /\ participants = <<>>
          ELSE pc = "devto_mentors" => LoadedIdentifiersMatch(participants, participantsDir)

\* a directory of two files has been loaded, one identifier differing from its
\* file's stem by case
C7_Witness ==
    /\ pc = "read_participants"
    /\ Len(mentors) = 2
    /\ \E i \in 1..2 : Get(mentors[i].github) # Stem(NamedFiles(mentorsDir)[i].filename)

\* ------------------------------------------------------------ C8
\* C8: every format error of read_json_files (extension, upper case in the name,
\* missing identifier, identifier that differs from the name) carries a message
\* that names the offending file.
C8_FormatErrorNamesFile ==
    /\ (pc = "raised" /\ HasBadFile(mentorsDir)) =>
          Mentions(err, FirstBadFile(mentorsDir).filename)
    /\ (pc = "raised" /\ ~HasBadFile(mentorsDir) /\ saved = {}
          /\ HasBadFile(participantsDir)) =>
          Mentions(err, FirstBadFile(participantsDir).filename)

\* ------------------------------------------------------------ recognized shapes
\* The three shapes as the specification lists them: https://github.com/<owner>/<repo>,
\* https://foss.heptapod.net/<owner>/<repo> and https://github.com/<owner>, the host
\* being those very characters and a segment being one or more characters, no slash.
HostA == Https \o <<"g", "i", "t", "h", "u", "b", ".", "c", "o", "m", "/">>
HostB ==
    Https \o <<"f", "o", "s", "s", ".", "h", "e", "p", "t", "a", "p", "o", "d", ".",
               "n", "e", "t", "/">>

StartsWith(s, prefix) == Len(s) >= Len(prefix) /\ SubSeq(s, 1, Len(prefix)) = prefix

RECURSIVE SplitSlash(_)
SplitSlash(s) ==
    IF \A i \in 1..Len(s) : s[i] # "/" THEN <<s>>
    ELSE LET k == CHOOSE i \in 1..Len(s) : s[i] = "/" /\ \A j \in 1..(i - 1) : s[j] # "/"
         IN <<SubSeq(s, 1, k - 1)>> \o SplitSlash(SubSeq(s, k + 1, Len(s)))

PathUnder(host, url) ==
    IF StartsWith(url, host) THEN SplitSlash(SubSeq(url, Len(host) + 1, Len(url)))
    ELSE <<>>

Segments(path, n) == Len(path) = n /\ \A i \in 1..n : path[i] # <<>>

\* The display name of a URL of a recognized shape; nothing for any other URL
RecognizedName(url) ==
    IF Segments(PathUnder(HostA, url), 2) THEN Some(PathUnder(HostA, url)[2])
    ELSE IF Segments(PathUnder(HostB, url), 2) THEN Some(PathUnder(HostB, url)[2])
    ELSE IF Segments(PathUnder(HostA, url), 1) THEN Some(PathUnder(HostA, url)[1])
    ELSE Absent

Recognized(url) == Has(RecognizedName(url))

\* The records of the list that declare projects, and the URLs they declare
Declaring(people) == {i \in 1..Len(people) : Has(people[i].projects)}

AllRecognized(people) ==
    \A i \in Declaring(people) :
        \A j \in 1..Len(Get(people[i].projects)) : Recognized(Get(people[i].projects)[j])

EntriesOf(person) ==
    [j \in 1..Len(Get(person.projects)) |->
        [url |-> Get(person.projects)[j],
         name |-> Get(RecognizedName(Get(person.projects)[j]))]]

RECURSIVE AllEntries(_, _)
AllEntries(people, i) ==
    IF i > Len(people) THEN <<>>
    ELSE (IF Has(people[i].projects) THEN EntriesOf(people[i]) ELSE <<>>)
         \o AllEntries(people, i + 1)

\* The list is as check_projects leaves it when every URL is recognized
Validated(people, declared) ==
    /\ Len(people) = Len(declared)
    /\ \A i \in 1..Len(declared) :
          people[i].projects =
             IF Has(declared[i].projects) THEN Some(EntriesOf(declared[i])) ELSE Absent

\* ------------------------------------------------------------ C4
\* C4: when every project URL a list declares has a recognized shape, check_projects
\* returns one entry {url, name} per URL, in record order then URL order, name being
\* the repo segment of a repository URL and the owner segment of an organization
\* URL; each record's projects are replaced by its own entries and a record without
\* a project list is left as it was.
C4_ProjectsClassified ==
    /\ (pc = "check_participants" /\ AllRecognized(Declared(mentorsDir))) =>
          /\ projects = AllEntries(Declared(mentorsDir), 1)
          /\ Validated(mentors, Declared(mentorsDir))
    /\ (pc = "collect_posts" /\ AllRecognized(Declared(mentorsDir))
          /\ AllRecognized(Declared(participantsDir))) =>
          /\ projects = AllEntries(Declared(mentorsDir), 1)
                           \o AllEntries(Declared(participantsDir), 1)
          /\ Validated(participants, Declared(participantsDir))
    /\ pc = "exited" =>
          \/ ~AllRecognized(Declared(mentorsDir))
          \/ ~AllRecognized(Declared(participantsDir))

\* two records have been validated, a repository on each host and an organization
\* among their URLs, all of a recognized shape
C4_Witness ==
    /\ pc = "check_participants"
    /\ AllRecognized(Declared(mentorsDir))
    /\ Len(mentors) = 2
    /\ {projects[i].url : i \in 1..Len(projects)} = {UrlRepo, UrlHeptapod, UrlOrg}

\* ------------------------------------------------------------ C5
\* The first URL of the list, in iteration order, that has no recognized shape
FirstUnrecognized(people) ==
    LET i == CHOOSE k \in Declaring(people) :
                 /\ \E j \in 1..Len(Get(people[k].projects)) :
                       ~Recognized(Get(people[k].projects)[j])
                 /\ \A m \in Declaring(people) : m < k =>
                       \A j \in 1..Len(Get(people[m].projects)) :
                          Recognized(Get(people[m].projects)[j])
        urls == Get(people[i].projects)
        j == CHOOSE k \in 1..Len(urls) :
                 ~Recognized(urls[k]) /\ \A m \in 1..(k - 1) : Recognized(urls[m])
    IN [person |-> i, url |-> urls[j]]

\* C5: check_project returns (None, None) for every URL that has none of the three
\* recognized shapes, and check_projects exits at the first such URL with a message
\* that holds the URL and the display name of the record declaring it, no later
\* record having been validated.
C5_UnrecognizedUrlAborts ==
    /\ \A i \in 1..Len(projects) : Recognized(projects[i].url)
    /\ (pc \in {"check_participants", "collect_posts", "sort_participants",
                "generate_html", "done", "exited"}
          /\ ~AllRecognized(Declared(mentorsDir))) =>
          LET first == FirstUnrecognized(Declared(mentorsDir))
          IN /\ pc = "exited"
             /\ Mentions(err, first.url)
             /\ Mentions(err, Declared(mentorsDir)[first.person].name)
             /\ \A i \in (first.person)..Len(mentors) :
                   mentors[i].projects = Declared(mentorsDir)[i].projects

\* ------------------------------------------------------------ C6
\* C6: in a run of main in which a mentor or a participant declares a URL of no
\* recognized shape, nothing is written under _site and generate_html is not
\* entered; the run exits only after the four enrichment phases have saved their
\* cache files, which stay in place.
C6_UnrecognizedUrlNoOutput ==
    (\/ ~AllRecognized(Declared(mentorsDir))
     \/ ~AllRecognized(Declared(participantsDir))) =>
        /\ site = NoSite
        /\ pc # "done"
        /\ pc = "exited" =>
              /\ saved = {"devto_mentors", "devto_participants", "github_mentors",
                          "github_participants"}
              /\ Has(disk.forem)
              /\ Has(disk.github_people)

\* ------------------------------------------------------------ posts
Collected == pc \in {"sort_participants", "generate_html", "done"}

\* The number of posts the records of a directory declare
RECURSIVE PostCount(_, _)
PostCount(people, i) ==
    IF i > Len(people) THEN 0
    ELSE (IF Has(people[i].posts) THEN Len(Get(people[i].posts)) ELSE 0)
         + PostCount(people, i + 1)

Timestamp(item) == Get(PublishedAt(heap, item))

\* ------------------------------------------------------------ C2
\* C2: the list collect_posts returns is sorted by publish timestamp, descending:
\* each item's published_at is at least that of the item after it, whether the item
\* is a details object or a fallback object.
C2_PostsSortedDescending ==
    Collected =>
        \A i \in 1..(Len(posts) - 1) : Timestamp(posts[i]) >= Timestamp(posts[i + 1])

\* posts of both kinds have been collected, and the newest was not declared first
C2_Witness ==
    /\ Collected
    /\ Len(posts) >= 3
    /\ \E i, j \in 1..Len(posts) : posts[i].kind = "details" /\ posts[j].kind = "fallback"
    /\ posts[1].src.n > 1
    /\ Timestamp(posts[1]) > Timestamp(posts[Len(posts)])

\* ------------------------------------------------------------ C3
\* C3 as stated: of two posts with the same publish timestamp, the one that comes
\* later in the input traversal comes first in the output.
C3_TiesReversed ==
    Collected =>
        \A i, j \in 1..Len(posts) :
            (i < j /\ Timestamp(posts[i]) = Timestamp(posts[j])) =>
                posts[i].src.n > posts[j].src.n

\* C3, amended: of two posts with the same publish timestamp, the one that comes
\* first in the input traversal (record order, then post order) comes first in the
\* output.
C3_TiesKeepInputOrder ==
    Collected =>
        \A i, j \in 1..Len(posts) :
            (i < j /\ Timestamp(posts[i]) = Timestamp(posts[j])) =>
                posts[i].src.n < posts[j].src.n

\* two posts with the same timestamp follow a newer one that was declared after them
C3_Witness ==
    /\ Collected
    /\ \E i, j \in 1..Len(posts) :
          /\ i < j
          /\ Timestamp(posts[i]) = Timestamp(posts[j])
          /\ posts[i].src.owner # posts[j].src.owner
          /\ posts[1].src.n > posts[j].src.n

\* ------------------------------------------------------------ C10
\* C10: after update_devto_posts and collect_posts the output holds one item per
\* declared post, and the item of each post carries as author the record that
\* declares the post, also when records of one list declare the same URL.
C10_AuthorIsOwner ==
    Collected =>
        /\ Len(posts) = PostCount(Declared(mentorsDir), 1)
                          + PostCount(Declared(participantsDir), 1)
        /\ {posts[i].src.n : i \in 1..Len(posts)} = 1..Len(posts)
        /\ \A i \in 1..Len(posts) : AuthorOf(heap, posts[i]) = Some(posts[i].src.owner)

\* ------------------------------------------------------------ C1
Namespaces == {"forem", "github_people"}

\* C1: once a key is in a cache file, no later phase of this run or of a later one
\* fetches it from the external source, and it stays in the file with the value it
\* has; nor is any key fetched twice by one phase.
C1_CachedNeverRefetched ==
    [][\A ns \in Namespaces :
          /\ \A k \in DOMAIN load_cache(ns) :
                /\ calls'[ns][k] = 0
                /\ Has(disk'[ns])
                /\ k \in DOMAIN Get(disk'[ns])
                /\ Get(disk'[ns])[k] = load_cache(ns)[k]
          /\ \A k \in DOMAIN calls'[ns] : calls'[ns][k] <= 1]_vars

\* a later run has gone through the mentors' posts without a fetch, a post's URL
\* being in the cache of an earlier run, where the source now has another answer
C1_Witness ==
    /\ run = 2
    /\ pc = "devto_participants"
    /\ \E u \in PostUrlsOf(mentors) :
          /\ calls.forem[u] = 0
          /\ ~remote.forem[u].raise
          /\ Get(disk.forem)[u] # remote.forem[u].value

\* ------------------------------------------------------------ C9
GithubMiss(person) ==
    /\ Get(person.github) \notin DOMAIN load_cache("github_people")
    /\ remote.github[Get(person.github)] = "notfound"

GithubRaise(person) ==
    /\ Get(person.github) \notin DOMAIN load_cache("github_people")
    /\ remote.github[Get(person.github)] = "raise"

\* What a call of update_github_data must have done to the list it was given
GithubMissSkipped(people, after, next) ==
    /\ \A i \in 1..Len(people) : GithubMiss(people[i]) =>
          /\ after[i].gh = Absent
          /\ Has(disk'.github_people) =>
                Get(people[i].github) \notin DOMAIN Get(disk'.github_people)
    /\ (\A i \in 1..Len(people) : ~GithubRaise(people[i])) =>
          /\ pc' = next
          /\ Has(disk'.github_people)
          /\ \A i \in 1..Len(people) : ~GithubMiss(people[i]) =>
                /\ Get(people[i].github) \in DOMAIN Get(disk'.github_people)
                /\ after[i].gh = Some(Get(disk'.github_people)[Get(people[i].github)])

\* C9: when the lookup of an uncached identifier answers "not found", the record is
\* left without 'gh' and nothing is stored under its identifier; the miss does not
\* end the run: unless a lookup raises, every other record is enriched and the
\* cache is saved at the end of the phase.
C9_GithubMissSkipped ==
    [][/\ pc = "github_mentors" =>
             GithubMissSkipped(mentors, mentors', "github_participants")
       /\ pc = "github_participants" =>
             GithubMissSkipped(participants, participants', "check_mentors")]_vars

\* the mentors' phase is over: the first record's lookup missed and the record has
\* no 'gh', the second record has its profile, and the cache is saved without the miss
C9_Witness ==
    /\ pc = "github_participants"
    /\ Len(mentors) = 2
    /\ mentors[1].gh = Absent
    /\ calls.github_people[Get(mentors[1].github)] = 1
    /\ Has(mentors[2].gh)
    /\ DOMAIN Get(disk.github_people) = {Get(mentors[2].github)}

====
